---- MODULE Spec2Model ----
(***************************************************************************)
(* gcp-deploy-cli: the deploy / remove / list / logs command handlers, the *)
(* local state store (project configuration and deployment history), the  *)
(* preview-service naming function and the platform gateway calls they     *)
(* issue.  Strings are sequences of one-character strings.                 *)
(***************************************************************************)
EXTENDS Integers, Sequences, FiniteSets, TLC

VARIABLES
    projectFile,     \* gcp-deploy.json: "absent", "unparsable", "ok" or a field missing
    history,         \* .gcp-deploy-history.json: the deployments array
    remote,          \* names of the services that exist on Cloud Run
    now,             \* the value the next reading of the clock returns
    cmd,             \* command being run: "none", "deploy", "remove", "list", "logs"
    pc,              \* position inside the handler
    opts,            \* command-line options of the run
    serviceName,     \* deploy: resolved service name; remove/logs: target name
    deploymentType,  \* deploy: "production" or "preview"
    branchName,      \* deploy: options.branch || getCurrentBranch()
    imageTag,        \* deploy: the timestamped image reference
    calls,           \* external calls issued by the run, in order
    histBefore,      \* history when the run started
    remoteBefore,    \* remote services when the run started
    outcome,         \* "none", "success", "warn", "cancelled", "error"
    exitStatus,      \* process exit status, -1 while running
    nmBranch,        \* naming: the branch string under derivation
    nmId,            \* naming: the value returned by nanoid(8)
    nmName,          \* naming: the derived preview name
    nmPhase,         \* naming: "input" or "derived"
    listed,          \* list: the two groups and what was printed
    rsIn,            \* resolution: base name, options, git branch, nanoid value
    rsOut,           \* resolution: the deployment type and service name
    rsPhase,         \* resolution: "input" or "resolved"
    hsIn,            \* history algebra: the history, the record and the clock
    hsOut,           \* history algebra: the history after the operations
    hsPhase,         \* history algebra: "input", "added" or "removed"
    lgEntries,       \* follow: timestamps of the service's log entries, by id
    lgClock,         \* follow: the time
    lastTimestamp,   \* follow: lower bound of the next fetch
    lgFlights,       \* follow: the getEntries calls in flight
    lgDelivered,     \* follow: how often each entry went to the callback
    pollInterval,    \* follow: the timer, "set" or "cleared"
    lgPolls,         \* follow: how often the timer has fired
    lgExited,        \* follow: process.exit was called
    lgAborted,       \* follow: fetches in flight when the process exited
    lgErrors,        \* follow: how often the catch block printed an error
    evIn,            \* env: the entries and raw lines to be written
    evText,          \* env: the lines of the .env file
    evOut,           \* env: the mapping parseEnvFile returned
    evPhase,         \* env: "input", "written" or "parsed"
    vcIn,            \* validation: the configuration object
    vcOut,           \* validation: the result of validateProjectConfig
    vcPhase,         \* validation: "input" or "validated"
    hfStart,         \* history file: the file before the two processes ran
    hfFile,          \* history file: .gcp-deploy-history.json on disk
    hfProc           \* history file: the two processes, their operation and position

storeVars == <<projectFile, history, remote, now>>
runVars == <<cmd, pc, opts, serviceName, deploymentType, branchName, imageTag,
             calls, histBefore, remoteBefore, outcome, exitStatus>>
nmVars == <<nmBranch, nmId, nmName, nmPhase>>
rsVars == <<rsIn, rsOut, rsPhase>>
hsVars == <<hsIn, hsOut, hsPhase>>
lgVars == <<lgEntries, lgClock, lastTimestamp, lgFlights, lgDelivered,
            pollInterval, lgPolls, lgExited, lgAborted, lgErrors>>
evVars == <<evIn, evText, evOut, evPhase>>
vcVars == <<vcIn, vcOut, vcPhase>>
hfVars == <<hfStart, hfFile, hfProc>>
moreVars == <<evVars, vcVars, hfVars>>
pureVars == <<nmVars, rsVars, hsVars, lgVars, moreVars>>
sideVars == <<listed, pureVars>>
vars == <<storeVars, runVars, sideVars>>

----------------------------------------------------------------------------
(* Bounds *)

MaxDeploys == 2
MaxEdge == 2

----------------------------------------------------------------------------
(* Characters and strings *)

Lower == {"a", "b", "c", "d", "e", "f", "g", "h", "i", "j", "k", "l", "m",
          "n", "o", "p", "q", "r", "s", "t", "u", "v", "w", "x", "y", "z"}
Digit == {"0", "1", "2", "3", "4", "5", "6", "7", "8", "9"}
AlNum == Lower \cup Digit

Min(a, b) == IF a < b THEN a ELSE b

Rep(c, n) == [i \in 1..n |-> c]

toLowerCase(s) ==
    [i \in 1..Len(s) |->
        CASE s[i] = "A" -> "a"
          [] s[i] = "F" -> "f"
          [] s[i] = "X" -> "x"
          [] s[i] = "Z" -> "z"
          [] s[i] = "E-acute" -> "e-acute"
          [] OTHER -> s[i]]

\* .replace(/[^a-z0-9-]/g, '-')
replaceInvalid(s) ==
    [i \in 1..Len(s) |-> IF s[i] \in AlNum \cup {"-"} THEN s[i] ELSE "-"]

\* .replace(/-+/g, '-')
RECURSIVE collapseHyphens(_)
collapseHyphens(s) ==
    IF Len(s) <= 1 THEN s
    ELSE IF s[1] = "-" /\ s[2] = "-" THEN collapseHyphens(Tail(s))
    ELSE <<s[1]>> \o collapseHyphens(Tail(s))

RECURSIVE trimLeading(_)
trimLeading(s) ==
    IF s # <<>> /\ s[1] = "-" THEN trimLeading(Tail(s)) ELSE s

\* .replace(/-+$/g, '')
RECURSIVE trimTrailing(_)
trimTrailing(s) ==
    IF s # <<>> /\ s[Len(s)] = "-" THEN trimTrailing(SubSeq(s, 1, Len(s) - 1))
    ELSE s

\* .replace(/^-+|-+$/g, '')
trimHyphens(s) == trimTrailing(trimLeading(s))

BranchMaxLen == 30

\* .substring(0, 30)
substring30(s) == SubSeq(s, 1, Min(Len(s), BranchMaxLen))

sanitizeBranchName(branch) ==
    trimTrailing(substring30(trimHyphens(collapseHyphens(
        replaceInvalid(toLowerCase(branch))))))

\* `${config.serviceName}-${sanitizedBranch}-${uniqueId}` normalised
previewServiceName(base, branch, id) ==
    trimHyphens(collapseHyphens(
        base \o <<"-">> \o sanitizeBranchName(branch) \o <<"-">> \o toLowerCase(id)))

----------------------------------------------------------------------------
(* Inputs and environment *)

APP == <<"a", "p", "p">>
MAIN == <<"m", "a", "i", "n">>
FEATURE == <<"f", "e", "a", "t", "u", "r", "e", "/", "X">>
NoBranch == <<>>

\* gcp-deploy.json as written by init
config == [projectId |-> "proj", region |-> "us-central1",
           serviceName |-> APP, artifactRegistry |-> "repo"]

\* the value nanoid(8) returns in the command runs
RunIds == { <<"Z", "a", "b", "c", "d", "e", "f", "g">> }

\* status.url of a service: the platform derives it from the service name
urlOf(name) == <<"h", "t", "t", "p", "s", ":", "/", "/">> \o name

NoImage == [name |-> <<>>, ts |-> 0, latest |-> FALSE]
NoOpts == [production |-> FALSE, preview |-> FALSE, branch |-> NoBranch,
           yes |-> FALSE, follow |-> FALSE]

\* one external call of a run: what was called, on what, and how it ended
NoFail == [kind |-> "none", has403 |-> FALSE, has404 |-> FALSE]

Call(op, name, image, ok) ==
    [op |-> op, name |-> name, image |-> image, ok |-> ok, res |-> "", url |-> <<>>,
     fail |-> NoFail]

\* the failure an external service call ends with: its kind and whether the
\* message text contains "403" / "404"
Failures == [kind : {"notFound", "other"},
             has403 : BOOLEAN, has404 : BOOLEAN]

Idle == pc = "idle"

CallsOf(op) == SelectSeq(calls, LAMBDA c : c.op = op)
Called(op) == CallsOf(op) # <<>>
Failed(op) == \E i \in 1..Len(calls) : calls[i].op = op /\ ~calls[i].ok
Succeeded(op) == \E i \in 1..Len(calls) : calls[i].op = op /\ calls[i].ok

\* the handler returns (exit status 0) or throws into the action wrapper of
\* index.js, which calls process.exit(1)
Return(o) ==
    /\ pc' = "done"
    /\ outcome' = o
    /\ exitStatus' = 0

Throw ==
    /\ pc' = "done"
    /\ outcome' = "error"
    /\ exitStatus' = 1

Begin(c, o) ==
    /\ pc = "idle"
    /\ cmd' = c
    /\ opts' = o
    /\ calls' = <<>>
    /\ histBefore' = history
    /\ remoteBefore' = remote
    /\ imageTag' = NoImage

----------------------------------------------------------------------------
(* State store: src/src/lib/config.js *)

isProjectInitialized == projectFile # "absent"

\* gcp-deploy.json files that parse but lack a required field
MissingFieldFiles == {"noProjectId", "noRegion", "noServiceName"}

\* what a missing field reads as, and what a template string makes of it
Undefined == "undefined"

\* JSON.parse of the file: a field that is not there is undefined
readProjectConfig(file) ==
    [config EXCEPT !.projectId = IF file = "noProjectId" THEN Undefined ELSE @,
                   !.region = IF file = "noRegion" THEN Undefined ELSE @,
                   !.serviceName = IF file = "noServiceName" THEN <<Undefined>> ELSE @]

\* history.deployments.push({...deployment, timestamp})
addDeployment(h, deployment, ts) ==
    Append(h, [serviceName |-> deployment.serviceName,
               type |-> deployment.type,
               branch |-> deployment.branch,
               url |-> deployment.url,
               image |-> deployment.image,
               region |-> deployment.region,
               timestamp |-> ts])

\* mutant: the filter keeps the named records instead of the others
removeDeployment_Inverted(h, name) == SelectSeq(h, LAMBDA d : d.serviceName = name)

\* mutant: only the first record of that name is taken out
removeDeployment_First(h, name) ==
    IF \E i \in 1..Len(h) : h[i].serviceName = name
    THEN LET first == CHOOSE i \in 1..Len(h) :
                          /\ h[i].serviceName = name
                          /\ \A j \in 1..(i - 1) : h[j].serviceName # name
         IN SubSeq(h, 1, first - 1) \o SubSeq(h, first + 1, Len(h))
    ELSE h

\* history.deployments.filter(d => d.serviceName !== serviceName)
removeDeployment(h, name) == SelectSeq(h, LAMBDA d : d.serviceName # name)

\* history.deployments.find(d => d.serviceName === serviceName)
hasDeployment(h, name) == \E i \in 1..Len(h) : h[i].serviceName = name

\* the service names of this project: recorded, deployed or configured
KnownNames ==
    {history[i].serviceName : i \in 1..Len(history)} \cup remote
        \cup {config.serviceName}

----------------------------------------------------------------------------
(* Platform gateway probes: src/src/lib/gcp-client.js *)

\* execSync('docker info') in try/catch
checkDockerRunning(probeOk) == probeOk

\* mutant: the catch branch also reports success
checkGcloudAuth_NoCatch(probeOk, account) == TRUE

\* execSync('gcloud auth list ...') in try/catch; the output is not read
checkGcloudAuth(probeOk, account) == probeOk

----------------------------------------------------------------------------
(* deploy: deployCommand *)

\* mutant: the preview option is looked at before the production option
resolveType_PreviewFirst(production, preview, branch) ==
    IF preview \/ branch # MAIN THEN "preview" ELSE "production"

\* lines 658-672: the production flag wins, then the preview flag or the branch
resolveType(production, preview, branch) ==
    IF production THEN "production"
    ELSE IF preview \/ branch # MAIN THEN "preview"
    ELSE "production"

\* mutant: the production name goes through the hyphen normalisation too
resolveName_Normalised(base, type, branch, id) ==
    IF type = "production" THEN trimHyphens(collapseHyphens(base))
    ELSE previewServiceName(base, branch, id)

resolveName(base, type, branch, id) ==
    IF type = "production" THEN base ELSE previewServiceName(base, branch, id)

imageOf(name, ts) == [name |-> name, ts |-> ts, latest |-> FALSE]
imageLatestOf(name) == [name |-> name, ts |-> 0, latest |-> TRUE]

\* mutant: the record keeps the :latest reference instead of the timestamped one
deploymentRecord_Latest(name, type, branch, url, image, region) ==
    [serviceName |-> name, type |-> type, branch |-> branch, url |-> url,
     image |-> imageLatestOf(name), region |-> region]

\* the object handed to addDeployment
deploymentRecord(name, type, branch, url, image, region) ==
    [serviceName |-> name, type |-> type, branch |-> branch, url |-> url,
     image |-> image, region |-> region]

\* mutant: a failed build is tried again
afterBuild_Retry(buildSuccess) == IF buildSuccess THEN "tag" ELSE "build"

\* if (!buildSuccess) return;
afterBuild(buildSuccess) == IF buildSuccess THEN "tag" ELSE "done"
\* mutant: the push result is not looked at
afterPush_Ignore(pushSuccess) == "pushLatest"

\* if (!pushSuccess) return;
afterPush(pushSuccess) == IF pushSuccess THEN "pushLatest" ELSE "done"

Step(next) ==
    IF next = "done" THEN Return("error")
    ELSE /\ pc' = next
         /\ UNCHANGED <<outcome, exitStatus>>

DeployStart(o, gitBranch, id) ==
    /\ Begin("deploy", o)
    /\ now <= MaxDeploys
    /\ IF ~isProjectInitialized
       THEN /\ Return("error")
            /\ UNCHANGED <<serviceName, deploymentType, branchName>>
       ELSE IF \/ projectFile = "unparsable"
               \/ readProjectConfig(projectFile).serviceName = <<Undefined>>
       THEN \* JSON.parse throws, or undefined.toLowerCase() throws a TypeError
            /\ Throw
            /\ UNCHANGED <<serviceName, deploymentType, branchName>>
       ELSE LET base == toLowerCase(readProjectConfig(projectFile).serviceName)
                branch == IF o.branch # NoBranch THEN o.branch ELSE gitBranch
                type == resolveType(o.production, o.preview, branch)
                name == resolveName(base, type, branch, id)
            IN /\ type = "preview" => name \notin KnownNames
               /\ branchName' = branch
               /\ deploymentType' = type
               /\ serviceName' = name
               /\ pc' = "checkDocker"
               /\ outcome' = "none"
               /\ exitStatus' = -1
    /\ UNCHANGED <<storeVars, sideVars>>

DeployCheckDocker(probeOk) ==
    /\ cmd = "deploy" /\ pc = "checkDocker"
    /\ calls' = Append(calls, Call("dockerInfo", <<>>, NoImage, probeOk))
    /\ Step(IF checkDockerRunning(probeOk) THEN "checkAuth" ELSE "done")
    /\ UNCHANGED <<storeVars, cmd, opts, serviceName, deploymentType, branchName,
                   imageTag, histBefore, remoteBefore, sideVars>>

DeployCheckAuth(probeOk, account) ==
    /\ cmd = "deploy" /\ pc = "checkAuth"
    /\ calls' = Append(calls, [Call("gcloudAuthList", <<>>, NoImage, probeOk)
                                  EXCEPT !.res = IF probeOk THEN account ELSE ""])
    /\ Step(IF checkGcloudAuth(probeOk, account) THEN "configureAuth" ELSE "done")
    /\ UNCHANGED <<storeVars, cmd, opts, serviceName, deploymentType, branchName,
                   imageTag, histBefore, remoteBefore, sideVars>>

DeployConfigureAuth(ok) ==
    /\ cmd = "deploy" /\ pc = "configureAuth"
    /\ calls' = Append(calls, Call("configureDockerAuth", <<>>, NoImage, ok))
    /\ Step(IF ok THEN "loadEnv" ELSE "done")
    /\ UNCHANGED <<storeVars, cmd, opts, serviceName, deploymentType, branchName,
                   imageTag, histBefore, remoteBefore, sideVars>>

\* parseEnvFile never throws; the image references are computed right after it
DeployLoadEnv ==
    /\ cmd = "deploy" /\ pc = "loadEnv"
    /\ calls' = Append(calls, Call("parseEnvFile", <<>>, NoImage, TRUE))
    /\ imageTag' = imageOf(serviceName, now)
    /\ now' = now + 1
    /\ pc' = "build"
    /\ UNCHANGED <<projectFile, history, remote, cmd, opts, serviceName,
                   deploymentType, branchName, histBefore, remoteBefore, outcome,
                   exitStatus, sideVars>>

DeployBuild(ok) ==
    /\ cmd = "deploy" /\ pc = "build"
    /\ calls' = Append(calls, Call("build", serviceName, imageTag, ok))
    /\ Step(afterBuild(ok))
    /\ UNCHANGED <<storeVars, cmd, opts, serviceName, deploymentType, branchName,
                   imageTag, histBefore, remoteBefore, sideVars>>

\* tagDockerImage: the result is not looked at
DeployTag(ok) ==
    /\ cmd = "deploy" /\ pc = "tag"
    /\ calls' = Append(calls, Call("tag", serviceName, imageLatestOf(serviceName), ok))
    /\ pc' = "push"
    /\ UNCHANGED <<storeVars, cmd, opts, serviceName, deploymentType, branchName,
                   imageTag, histBefore, remoteBefore, outcome, exitStatus, sideVars>>

DeployPush(ok) ==
    /\ cmd = "deploy" /\ pc = "push"
    /\ calls' = Append(calls, Call("push", serviceName, imageTag, ok))
    /\ Step(afterPush(ok))
    /\ UNCHANGED <<storeVars, cmd, opts, serviceName, deploymentType, branchName,
                   imageTag, histBefore, remoteBefore, sideVars>>

\* the :latest push: the result is not looked at
DeployPushLatest(ok) ==
    /\ cmd = "deploy" /\ pc = "pushLatest"
    /\ calls' = Append(calls, Call("pushLatest", serviceName, imageLatestOf(serviceName), ok))
    /\ pc' = "deploy"
    /\ UNCHANGED <<storeVars, cmd, opts, serviceName, deploymentType, branchName,
                   imageTag, histBefore, remoteBefore, outcome, exitStatus, sideVars>>

\* execSync('gcloud run deploy ...') inside the try block
DeployRun(ok) ==
    /\ cmd = "deploy" /\ pc = "deploy"
    /\ calls' = Append(calls, Call("deploy", serviceName, imageTag, ok))
    /\ remote' = IF ok THEN remote \cup {serviceName} ELSE remote
    /\ Step(IF ok THEN "describe" ELSE "done")
    /\ UNCHANGED <<projectFile, history, now, cmd, opts, serviceName,
                   deploymentType, branchName, imageTag, histBefore, remoteBefore,
                   sideVars>>

\* execSync('gcloud run services describe ...'), then addDeployment
DeployDescribe(ok) ==
    /\ cmd = "deploy" /\ pc = "describe"
    /\ ok => serviceName \in remote
    /\ IF ok
       THEN /\ calls' = calls \o
                  << [Call("describe", serviceName, NoImage, TRUE)
                         EXCEPT !.url = urlOf(serviceName)],
                     Call("addDeployment", serviceName, imageTag, TRUE) >>
            /\ history' = addDeployment(history,
                   deploymentRecord(serviceName, deploymentType, branchName,
                                    urlOf(serviceName), imageTag,
                                    readProjectConfig(projectFile).region), now)
            /\ Return("success")
       ELSE /\ calls' = Append(calls, Call("describe", serviceName, NoImage, FALSE))
            /\ history' = history
            /\ Return("error")
    /\ UNCHANGED <<projectFile, remote, now, cmd, opts, serviceName,
                   deploymentType, branchName, imageTag, histBefore, remoteBefore,
                   sideVars>>

----------------------------------------------------------------------------
(* remove: removeCommand *)

Answers == {"yes", "no", "none"}

\* mutant: only an explicit "no" cancels
isConfirmed_NotNo(answer) == answer # "no"

\* if (!confirmed) return;  ("none": the prompt was aborted, confirmed is undefined)
isConfirmed(answer) == answer = "yes"

\* the catch block: the 404 branch, reached only when the 403 test failed,
\* deletes the history record
catchRemovesRecord(f) == ~f.has403 /\ f.has404

RemoveStart(name, yes) ==
    /\ Begin("remove", [NoOpts EXCEPT !.yes = yes])
    /\ serviceName' = name
    /\ IF ~isProjectInitialized \/ name = <<>>
       THEN Return("error")
       ELSE IF projectFile = "unparsable"
       THEN Throw
       ELSE /\ pc' = IF yes THEN "lookup" ELSE "confirm"
            /\ outcome' = "none"
            /\ exitStatus' = -1
    /\ UNCHANGED <<storeVars, deploymentType, branchName, sideVars>>

RemoveConfirm(answer) ==
    /\ cmd = "remove" /\ pc = "confirm"
    /\ calls' = Append(calls, [Call("prompt", serviceName, NoImage, TRUE)
                                  EXCEPT !.res = answer])
    /\ IF isConfirmed(answer)
       THEN /\ pc' = "lookup"
            /\ UNCHANGED <<outcome, exitStatus>>
       ELSE Return("cancelled")
    /\ UNCHANGED <<storeVars, cmd, opts, serviceName, deploymentType, branchName,
                   imageTag, histBefore, remoteBefore, sideVars>>

\* the catch block of removeCommand
RemoveCatch(f) ==
    /\ history' = IF catchRemovesRecord(f)
                  THEN removeDeployment(history, serviceName)
                  ELSE history
    /\ Return("error")

\* gcpClient.getService: found, null on code 5 (NOT_FOUND), or a thrown error
RemoveLookupFound ==
    /\ cmd = "remove" /\ pc = "lookup"
    /\ serviceName \in remote
    /\ calls' = Append(calls, [Call("getService", serviceName, NoImage, TRUE)
                                  EXCEPT !.res = "found"])
    /\ pc' = "delete"
    /\ UNCHANGED <<storeVars, cmd, opts, serviceName, deploymentType, branchName,
                   imageTag, histBefore, remoteBefore, outcome, exitStatus, sideVars>>

RemoveLookupAbsent ==
    /\ cmd = "remove" /\ pc = "lookup"
    /\ serviceName \notin remote
    /\ calls' = Append(calls, [Call("getService", serviceName, NoImage, TRUE)
                                  EXCEPT !.res = "null"])
    /\ history' = removeDeployment(history, serviceName)
    /\ Return("warn")
    /\ UNCHANGED <<projectFile, remote, now, cmd, opts, serviceName,
                   deploymentType, branchName, imageTag, histBefore, remoteBefore,
                   sideVars>>

RemoveLookupError(f) ==
    /\ cmd = "remove" /\ pc = "lookup"
    /\ f.kind # "notFound"
    /\ calls' = Append(calls, [Call("getService", serviceName, NoImage, FALSE)
                                  EXCEPT !.fail = f])
    /\ RemoveCatch(f)
    /\ UNCHANGED <<projectFile, remote, now, cmd, opts, serviceName,
                   deploymentType, branchName, imageTag, histBefore, remoteBefore,
                   sideVars>>

\* gcpClient.deleteService, then removeDeployment
RemoveDeleteOk ==
    /\ cmd = "remove" /\ pc = "delete"
    /\ serviceName \in remote
    /\ calls' = Append(calls, Call("deleteService", serviceName, NoImage, TRUE))
    /\ remote' = remote \ {serviceName}
    /\ history' = removeDeployment(history, serviceName)
    /\ Return("success")
    /\ UNCHANGED <<projectFile, now, cmd, opts, serviceName, deploymentType,
                   branchName, imageTag, histBefore, remoteBefore, sideVars>>

\* deleteService throws `Failed to delete service: ${error.message}`
RemoveDeleteError(f) ==
    /\ cmd = "remove" /\ pc = "delete"
    /\ f.kind = "notFound" <=> serviceName \notin remote
    /\ calls' = Append(calls, [Call("deleteService", serviceName, NoImage, FALSE)
                                  EXCEPT !.fail = f])
    /\ RemoveCatch(f)
    /\ UNCHANGED <<projectFile, remote, now, cmd, opts, serviceName,
                   deploymentType, branchName, imageTag, histBefore, remoteBefore,
                   sideVars>>

\* somebody else deletes a service (console, another checkout) before the
\* command looks at the platform again
ExternalDelete(name) ==
    /\ pc \in {"describe", "lookup", "delete"}
    /\ name \in remote
    /\ remote' = remote \ {name}
    /\ UNCHANGED <<projectFile, history, now, runVars, sideVars>>

----------------------------------------------------------------------------
(* list: listCommand;  logs: logsCommand (one-time fetch) *)

ListStart(production, preview) ==
    /\ Begin("list", [NoOpts EXCEPT !.production = production, !.preview = preview])
    /\ IF ~isProjectInitialized
       THEN Return("error")
       ELSE IF projectFile = "unparsable"
       THEN Throw
       ELSE /\ pc' = "listServices"
            /\ outcome' = "none"
            /\ exitStatus' = -1
    /\ UNCHANGED <<storeVars, serviceName, deploymentType, branchName, sideVars>>

NoListing == [services |-> {}, production |-> {}, preview |-> {}, shown |-> {}]

APPLE == <<"a", "p", "p", "l", "e">>
APP_X == <<"a", "p", "p", "-", "x">>

\* Cloud Run services of the project and region that this tool did not deploy
ForeignServices == {APPLE, APP_X}

startsWith(s, prefix) == Len(s) >= Len(prefix) /\ SubSeq(s, 1, Len(prefix)) = prefix

\* mutant: the prefix test leaves out the hyphen
isRelevant_NoHyphen(name, base) == name = base \/ startsWith(name, base)

\* name === config.serviceName || name.startsWith(`${config.serviceName}-`)
isRelevant(name, base) == name = base \/ startsWith(name, base \o <<"-">>)

\* history.deployments.find(d => d.serviceName === serviceName)
getDeployment(h, name) ==
    h[CHOOSE i \in 1..Len(h) :
          /\ h[i].serviceName = name
          /\ \A j \in 1..(i - 1) : h[j].serviceName # name]

\* historyEntry?.type || (serviceName === config.serviceName ? 'production' : 'preview')
listedType(h, name, base) ==
    IF hasDeployment(h, name) THEN getDeployment(h, name).type
    ELSE IF name = base THEN "production" ELSE "preview"

showProduction(o) == o.production \/ (~o.production /\ ~o.preview)
showPreview(o) == o.preview \/ (~o.production /\ ~o.preview)

\* mutant: the names recorded in the history are listed as well
listing_WithHistory(services, h, base, o) ==
    LET known == services \cup {h[i].serviceName : i \in 1..Len(h)}
        relevant == {n \in known : isRelevant(n, base)}
        production == {n \in relevant : listedType(h, n, base) = "production"}
        preview == relevant \ production
    IN [services |-> services, production |-> production, preview |-> preview,
        shown |-> (IF showProduction(o) THEN production ELSE {})
                      \cup (IF showPreview(o) THEN preview ELSE {})]

\* the two groups listCommand builds and the names it prints
listing(services, h, base, o) ==
    LET relevant == {n \in services : isRelevant(n, base)}
        production == {n \in relevant : listedType(h, n, base) = "production"}
        preview == relevant \ production
    IN [services |-> services, production |-> production, preview |-> preview,
        shown |-> (IF showProduction(o) THEN production ELSE {})
                      \cup (IF showPreview(o) THEN preview ELSE {})]

\* gcpClient.listServices(), the grouping and the display; the catch block
\* prints the error and returns
ListFetch(ok, others) ==
    /\ cmd = "list" /\ pc = "listServices"
    /\ calls' = Append(calls, Call("listServices", <<>>, NoImage, ok))
    /\ listed' = IF ok
                 THEN listing(remote \cup others, history,
                              readProjectConfig(projectFile).serviceName, opts)
                 ELSE NoListing
    /\ ~ok => others = {}
    /\ Return(IF ok THEN "success" ELSE "error")
    /\ UNCHANGED <<storeVars, cmd, opts, serviceName, deploymentType, branchName,
                   imageTag, histBefore, remoteBefore, pureVars>>

LogsStart(deployment) ==
    /\ Begin("logs", [NoOpts EXCEPT !.branch = deployment])
    /\ IF ~isProjectInitialized
       THEN /\ Return("error")
            /\ UNCHANGED serviceName
       ELSE IF projectFile = "unparsable"
       THEN /\ Throw
            /\ UNCHANGED serviceName
       ELSE LET name == IF deployment # <<>> THEN deployment ELSE config.serviceName
            IN /\ serviceName' = name
               /\ IF ~hasDeployment(history, name) /\ deployment = <<>>
                  THEN Return("warn")
                  ELSE /\ pc' = "getEntries"
                       /\ outcome' = "none"
                       /\ exitStatus' = -1
    /\ UNCHANGED <<storeVars, deploymentType, branchName, sideVars>>

\* log.getEntries: a failure is rethrown by streamLogs and caught by logsCommand
LogsFetch(ok) ==
    /\ cmd = "logs" /\ pc = "getEntries"
    /\ calls' = Append(calls, Call("getEntries", serviceName, NoImage, ok))
    /\ Return(IF ok THEN "success" ELSE "error")
    /\ UNCHANGED <<storeVars, cmd, opts, serviceName, deploymentType, branchName,
                   imageTag, histBefore, remoteBefore, sideVars>>

----------------------------------------------------------------------------
(* The command-line tool *)

\* the process has exited: nothing of the run is left but the files and the
\* remote services
Exit ==
    /\ pc = "done"
    /\ pc' = "idle"
    /\ cmd' = "none"
    /\ opts' = NoOpts
    /\ serviceName' = <<>>
    /\ deploymentType' = ""
    /\ branchName' = <<>>
    /\ imageTag' = NoImage
    /\ calls' = <<>>
    /\ histBefore' = <<>>
    /\ remoteBefore' = {}
    /\ outcome' = "none"
    /\ exitStatus' = -1
    /\ listed' = NoListing
    /\ UNCHANGED <<storeVars, pureVars>>

\* the parts of the model that a specification does not exercise
NmOff == nmBranch = <<>> /\ nmId = <<>> /\ nmName = <<>> /\ nmPhase = "off"
RsOff == rsIn = <<>> /\ rsOut = <<>> /\ rsPhase = "off"
HsOff == hsIn = <<>> /\ hsOut = <<>> /\ hsPhase = "off"
LgOff ==
    /\ lgEntries = <<>>
    /\ lgClock = 0
    /\ lastTimestamp = 0
    /\ lgFlights = <<>>
    /\ lgDelivered = <<>>
    /\ pollInterval = "none"
    /\ lgPolls = 0
    /\ lgExited = FALSE
    /\ lgAborted = 0
    /\ lgErrors = 0
EvOff == evIn = <<>> /\ evText = <<>> /\ evOut = <<>> /\ evPhase = "off"
VcOff == vcIn = <<>> /\ vcOut = <<>> /\ vcPhase = "off"
HfOff == hfStart = <<>> /\ hfFile = <<>> /\ hfProc = <<>>
MoreOff == EvOff /\ VcOff /\ HfOff

\* no command is running
NoRun ==
    /\ cmd = "none"
    /\ pc = "idle"
    /\ opts = NoOpts
    /\ serviceName = <<>>
    /\ deploymentType = ""
    /\ branchName = <<>>
    /\ imageTag = NoImage
    /\ calls = <<>>
    /\ histBefore = <<>>
    /\ remoteBefore = {}
    /\ outcome = "none"
    /\ exitStatus = -1
    /\ listed = NoListing

\* a freshly initialised project: nothing deployed, nothing recorded
FreshProject ==
    /\ projectFile = "ok"
    /\ history = <<>>
    /\ remote = {}
    /\ now = 1

DeployOpts ==
    { [NoOpts EXCEPT !.production = p, !.preview = v, !.branch = b] :
        p \in BOOLEAN, v \in BOOLEAN, b \in {NoBranch, FEATURE} }

GitBranches == {MAIN, FEATURE}

Init ==
    /\ projectFile \in {"absent", "unparsable", "ok"}
    /\ history = <<>>
    /\ remote = {}
    /\ now = 1
    /\ cmd = "none"
    /\ pc = "idle"
    /\ opts = NoOpts
    /\ serviceName = <<>>
    /\ deploymentType = ""
    /\ branchName = <<>>
    /\ imageTag = NoImage
    /\ calls = <<>>
    /\ histBefore = <<>>
    /\ remoteBefore = {}
    /\ outcome = "none"
    /\ exitStatus = -1
    /\ listed = NoListing
    /\ nmBranch = <<>>
    /\ nmId = <<>>
    /\ nmName = <<>>
    /\ nmPhase = "off"
    /\ RsOff
    /\ HsOff
    /\ LgOff
    /\ MoreOff

Next ==
    \/ \E o \in DeployOpts, g \in GitBranches, id \in RunIds : DeployStart(o, g, id)
    \/ \E ok \in BOOLEAN : DeployCheckDocker(ok)
    \/ \E ok \in BOOLEAN, a \in {"", "user@example.com"} : DeployCheckAuth(ok, a)
    \/ \E ok \in BOOLEAN : DeployConfigureAuth(ok)
    \/ DeployLoadEnv
    \/ \E ok \in BOOLEAN : DeployBuild(ok)
    \/ \E ok \in BOOLEAN : DeployTag(ok)
    \/ \E ok \in BOOLEAN : DeployPush(ok)
    \/ \E ok \in BOOLEAN : DeployPushLatest(ok)
    \/ \E ok \in BOOLEAN : DeployRun(ok)
    \/ \E ok \in BOOLEAN : DeployDescribe(ok)
    \/ \E n \in KnownNames \cup {<<>>}, y \in BOOLEAN : RemoveStart(n, y)
    \/ \E a \in Answers : RemoveConfirm(a)
    \/ RemoveLookupFound
    \/ RemoveLookupAbsent
    \/ \E f \in Failures : RemoveLookupError(f)
    \/ RemoveDeleteOk
    \/ \E f \in Failures : RemoveDeleteError(f)
    \/ \E n \in remote : ExternalDelete(n)
    \/ \E p \in BOOLEAN, v \in BOOLEAN : ListStart(p, v)
    \/ \E ok \in BOOLEAN, others \in SUBSET ForeignServices : ListFetch(ok, others)
    \/ \E d \in KnownNames \cup {<<>>} : LogsStart(d)
    \/ \E ok \in BOOLEAN : LogsFetch(ok)
    \/ Exit

Spec == Init /\ [][Next]_vars

----------------------------------------------------------------------------
(* Naming: the preview name derived from a branch and a nanoid value *)

RECURSIVE StringsUpTo(_, _)
StringsUpTo(chars, n) ==
    IF n = 0 THEN {<<>>}
    ELSE LET shorter == StringsUpTo(chars, n - 1)
         IN shorter \cup {Append(t, c) : t \in shorter, c \in chars}

\* branch strings: a short head, a long run of one character, a short tail
BranchHeads == {<<>>, <<"-">>, <<"/">>, <<"X">>, <<"E-acute">>}
BranchBodies == {<<>>} \cup {Rep(c, n) : c \in {"a", "-"}, n \in {28, 29}}
BranchTails == StringsUpTo({"b", "F", "-", "/"}, MaxEdge)
Branches == {h \o b \o t : h \in BranchHeads, b \in BranchBodies, t \in BranchTails}

\* nanoid's alphabet is A-Za-z0-9_- ; 8 characters
NanoIds ==
    {<<c1>> \o mid \o <<c2>> :
        c1 \in {"a", "_", "-"}, c2 \in {"Z", "7", "_", "-"},
        mid \in {Rep("k", 6), Rep("-", 6)}}

NamingInit ==
    /\ projectFile = "ok"
    /\ history = <<>>
    /\ remote = {}
    /\ now = 1
    /\ cmd = "none"
    /\ pc = "idle"
    /\ opts = NoOpts
    /\ serviceName = <<>>
    /\ deploymentType = ""
    /\ branchName = <<>>
    /\ imageTag = NoImage
    /\ calls = <<>>
    /\ histBefore = <<>>
    /\ remoteBefore = {}
    /\ outcome = "none"
    /\ exitStatus = -1
    /\ nmBranch \in Branches
    /\ nmId \in NanoIds
    /\ nmName = <<>>
    /\ nmPhase = "input"
    /\ listed = NoListing
    /\ RsOff
    /\ HsOff
    /\ LgOff
    /\ MoreOff

NamingDerive ==
    /\ nmPhase = "input"
    /\ nmName' = resolveName(toLowerCase(config.serviceName), "preview", nmBranch, nmId)
    /\ nmPhase' = "derived"
    /\ UNCHANGED <<storeVars, runVars, nmBranch, nmId, listed, rsVars, hsVars, lgVars,
                   moreVars>>

NamingNext == NamingDerive

SpecNaming == NamingInit /\ [][NamingNext]_vars

----------------------------------------------------------------------------
(* Resolution: the deployment type and the service name of a deploy run *)

MY_APP == <<"m", "y", "-", "a", "p", "p">>
UPPER_APP == <<"A", "p", "p">>

\* serviceName of gcp-deploy.json: init accepts [a-z0-9-]+ only, a copied and
\* edited file (EXAMPLES.md) holds whatever was typed
BaseNames == {APP, MY_APP, UPPER_APP, <<"a", "-", "-", "b">>, <<"a", "p", "p", "-">>,
              <<"-">>}

UPPER_MAIN == <<"M", "a", "i", "n">>

\* --branch values (NoBranch: the option is not given) and git branches
BranchOptions == {NoBranch, MAIN, UPPER_MAIN, FEATURE}

ResolveInit ==
    /\ FreshProject
    /\ NoRun
    /\ NmOff
    /\ HsOff
    /\ LgOff
    /\ MoreOff
    /\ rsIn \in [base : BaseNames, production : BOOLEAN, preview : BOOLEAN,
                 branch : BranchOptions, git : GitBranches, id : RunIds]
    /\ rsOut = <<>>
    /\ rsPhase = "input"

\* lines 648-672 of deployCommand
ResolveDerive ==
    /\ rsPhase = "input"
    /\ LET base == toLowerCase(rsIn.base)
           branch == IF rsIn.branch # NoBranch THEN rsIn.branch ELSE rsIn.git
           type == resolveType(rsIn.production, rsIn.preview, branch)
       IN rsOut' = [type |-> type, branch |-> branch,
                    name |-> resolveName(base, type, branch, rsIn.id)]
    /\ rsPhase' = "resolved"
    /\ UNCHANGED <<storeVars, runVars, listed, nmVars, rsIn, hsVars, lgVars,
                   moreVars>>

ResolveNext == ResolveDerive

SpecResolve == ResolveInit /\ [][ResolveNext]_vars

----------------------------------------------------------------------------
(* logs --follow: GCPClient.streamLogs in follow mode and the SIGINT handler *)

MaxEntries == 2
MaxTime == 3
MaxPolls == 3
MaxFlights == 2

Max(S) == CHOOSE x \in S : \A y \in S : y <= x

RemoveAt(q, i) == SubSeq(q, 1, i - 1) \o SubSeq(q, i + 1, Len(q))

\* log.getEntries({filter: `... timestamp>="${lastTimestamp}"`}): the ids of
\* the entries the filter selects
getEntries(entries, since) == {i \in 1..Len(entries) : entries[i] >= since}

\* entries[entries.length - 1].metadata.timestamp of a result in ascending order
lastEntryTimestamp(entries, ids) == Max({entries[i] : i \in ids})

\* streamLogs(serviceName, callback, true) has returned the cleanup function
\* and logsCommand waits on its never-resolving promise
LogsFollowInit ==
    /\ projectFile = "ok"
    /\ history = <<>>
    /\ remote = {APP}
    /\ now = 1
    /\ cmd = "logs"
    /\ pc = "follow"
    /\ opts = [NoOpts EXCEPT !.follow = TRUE, !.branch = APP]
    /\ serviceName = APP
    /\ deploymentType = ""
    /\ branchName = <<>>
    /\ imageTag = NoImage
    /\ calls = <<>>
    /\ histBefore = <<>>
    /\ remoteBefore = {APP}
    /\ outcome = "none"
    /\ exitStatus = -1
    /\ listed = NoListing
    /\ NmOff
    /\ RsOff
    /\ HsOff
    /\ lgEntries = <<>>
    /\ lgClock = 1
    /\ lastTimestamp = lgClock
    /\ lgFlights = <<>>
    /\ lgDelivered = <<>>
    /\ pollInterval = "set"
    /\ lgPolls = 0
    /\ lgExited = FALSE
    /\ lgAborted = 0
    /\ lgErrors = 0
    /\ MoreOff

\* the service writes a log entry, stamped with the current time
LogWrite ==
    /\ pc = "follow"
    /\ Len(lgEntries) < MaxEntries
    /\ lgEntries' = Append(lgEntries, lgClock)
    /\ lgDelivered' = Append(lgDelivered, 0)
    /\ UNCHANGED <<storeVars, runVars, listed, nmVars, rsVars, hsVars, lgClock,
                   lastTimestamp, lgFlights, pollInterval, lgPolls, lgExited,
                   lgAborted, lgErrors,
                   moreVars>>

LogTick ==
    /\ pc = "follow"
    /\ lgClock < MaxTime
    /\ lgClock' = lgClock + 1
    /\ UNCHANGED <<storeVars, runVars, listed, nmVars, rsVars, hsVars, lgEntries,
                   lastTimestamp, lgFlights, lgDelivered, pollInterval, lgPolls,
                   lgExited, lgAborted, lgErrors,
                   moreVars>>

\* the interval callback starts: the filter is built from lastTimestamp and
\* getEntries is sent; callbacks of earlier ticks may still be waiting
PollFire ==
    /\ pc = "follow"
    /\ pollInterval = "set"
    /\ lgPolls < MaxPolls
    /\ Len(lgFlights) < MaxFlights
    /\ lgFlights' = Append(lgFlights,
                           [since |-> lastTimestamp, answered |-> FALSE, ids |-> {}])
    /\ lgPolls' = lgPolls + 1
    /\ UNCHANGED <<storeVars, runVars, listed, nmVars, rsVars, hsVars, lgEntries,
                   lgClock, lastTimestamp, lgDelivered, pollInterval, lgExited,
                   lgAborted, lgErrors,
                   moreVars>>

\* Cloud Logging evaluates the filter of one request
PollAnswer(i) ==
    /\ pc = "follow"
    /\ i \in 1..Len(lgFlights)
    /\ ~lgFlights[i].answered
    /\ lgFlights' = [lgFlights EXCEPT ![i].answered = TRUE,
                                      ![i].ids = getEntries(lgEntries, lgFlights[i].since)]
    /\ UNCHANGED <<storeVars, runVars, listed, nmVars, rsVars, hsVars, lgEntries,
                   lgClock, lastTimestamp, lgDelivered, pollInterval, lgPolls,
                   lgExited, lgAborted, lgErrors,
                   moreVars>>

\* the await resumes: every entry goes to the callback and lastTimestamp is
\* set from the last one
PollComplete(i) ==
    /\ pc = "follow"
    /\ i \in 1..Len(lgFlights)
    /\ lgFlights[i].answered
    /\ LET ids == lgFlights[i].ids
       IN IF ids # {}
          THEN /\ lgDelivered' = [k \in 1..Len(lgDelivered) |->
                                     IF k \in ids THEN lgDelivered[k] + 1
                                     ELSE lgDelivered[k]]
               /\ lastTimestamp' = lastEntryTimestamp(lgEntries, ids)
          ELSE UNCHANGED <<lgDelivered, lastTimestamp>>
    /\ lgFlights' = RemoveAt(lgFlights, i)
    /\ UNCHANGED <<storeVars, runVars, listed, nmVars, rsVars, hsVars, lgEntries,
                   lgClock, pollInterval, lgPolls, lgExited, lgAborted, lgErrors,
                   moreVars>>

\* mutant: the catch block gives the polling up
timerAfterError_Cleared(timer) == "cleared"

\* catch (error) { console.error(...) }: the interval is left as it is
timerAfterError(timer) == timer

\* getEntries rejects: the catch block prints the error
PollFail(i) ==
    /\ pc = "follow"
    /\ i \in 1..Len(lgFlights)
    /\ lgFlights' = RemoveAt(lgFlights, i)
    /\ lgErrors' = lgErrors + 1
    /\ pollInterval' = timerAfterError(pollInterval)
    /\ UNCHANGED <<storeVars, runVars, listed, nmVars, rsVars, hsVars, lgEntries,
                   lgClock, lastTimestamp, lgDelivered, lgPolls,
                   lgExited, lgAborted, moreVars>>

\* process.on('SIGINT'): cleanup() clears the interval, then process.exit(0)
Sigint ==
    /\ pc = "follow"
    /\ pollInterval' = "cleared"
    /\ lgExited' = TRUE
    /\ lgAborted' = Len(lgFlights)
    /\ lgFlights' = <<>>
    /\ Return("success")
    /\ UNCHANGED <<storeVars, cmd, opts, serviceName, deploymentType, branchName,
                   imageTag, calls, histBefore, remoteBefore, listed, nmVars, rsVars,
                   hsVars, lgEntries, lgClock, lastTimestamp, lgDelivered, lgPolls,
                   lgErrors, moreVars>>

LogsFollowNext ==
    \/ LogWrite
    \/ LogTick
    \/ PollFire
    \/ \E i \in 1..MaxFlights : PollAnswer(i)
    \/ \E i \in 1..MaxFlights : PollComplete(i)
    \/ \E i \in 1..MaxFlights : PollFail(i)
    \/ Sigint

SpecLogs == LogsFollowInit /\ [][LogsFollowNext]_vars

----------------------------------------------------------------------------
(* deploy with a gcp-deploy.json that lacks a required field *)

ConfigInit ==
    /\ projectFile \in MissingFieldFiles
    /\ history = <<>>
    /\ remote = {}
    /\ now = 1
    /\ NoRun
    /\ NmOff
    /\ RsOff
    /\ HsOff
    /\ LgOff
    /\ MoreOff

ConfigNext ==
    \/ \E o \in DeployOpts, g \in GitBranches, id \in RunIds : DeployStart(o, g, id)
    \/ \E ok \in BOOLEAN : DeployCheckDocker(ok)
    \/ \E ok \in BOOLEAN, a \in {"", "user@example.com"} : DeployCheckAuth(ok, a)
    \/ \E ok \in BOOLEAN : DeployConfigureAuth(ok)
    \/ DeployLoadEnv
    \/ \E ok \in BOOLEAN : DeployBuild(ok)
    \/ \E ok \in BOOLEAN : DeployTag(ok)
    \/ \E ok \in BOOLEAN : DeployPush(ok)
    \/ \E ok \in BOOLEAN : DeployPushLatest(ok)
    \/ \E ok \in BOOLEAN : DeployRun(ok)
    \/ \E ok \in BOOLEAN : DeployDescribe(ok)
    \/ Exit

SpecConfig == ConfigInit /\ [][ConfigNext]_vars

----------------------------------------------------------------------------
(* History algebra: addDeployment followed by removeDeployment *)

MaxHist == 2

APP_PREVIEW == previewServiceName(APP, FEATURE, <<"Z", "a", "b", "c", "d", "e", "f", "g">>)

\* the record deployCommand hands to addDeployment for a service name
recordFor(name) ==
    deploymentRecord(name, IF name = APP THEN "production" ELSE "preview",
                     IF name = APP THEN MAIN ELSE FEATURE, urlOf(name),
                     imageOf(name, 1), config.region)

RECURSIVE HistoriesUpTo(_)
HistoriesUpTo(n) ==
    IF n = 0 THEN {<<>>}
    ELSE LET shorter == HistoriesUpTo(n - 1)
         IN shorter \cup
            {addDeployment(h, recordFor(name), ts) :
                h \in shorter, name \in {APP, APP_PREVIEW}, ts \in 1..2}

HistoryInit ==
    /\ FreshProject
    /\ NoRun
    /\ NmOff
    /\ RsOff
    /\ LgOff
    /\ MoreOff
    /\ hsIn \in [h : HistoriesUpTo(MaxHist),
                 r : {recordFor(name) : name \in {APP, APP_PREVIEW}},
                 ts : {3, 4}]
    /\ hsOut = hsIn.h
    /\ hsPhase = "input"

HistoryAdd ==
    /\ hsPhase = "input"
    /\ hsOut' = addDeployment(hsOut, hsIn.r, hsIn.ts)
    /\ hsPhase' = "added"
    /\ UNCHANGED <<storeVars, runVars, listed, nmVars, rsVars, hsIn, lgVars,
                   moreVars>>

HistoryRemove ==
    /\ hsPhase = "added"
    /\ hsOut' = removeDeployment(hsOut, hsIn.r.serviceName)
    /\ hsPhase' = "removed"
    /\ UNCHANGED <<storeVars, runVars, listed, nmVars, rsVars, hsIn, lgVars,
                   moreVars>>

HistoryNext == HistoryAdd \/ HistoryRemove

SpecHistory == HistoryInit /\ [][HistoryNext]_vars

----------------------------------------------------------------------------
(* Environment loader: parseEnvFile on the lines of a .env file *)

MaxLines == 2

DQ == "\""
SQ == "'"
Whitespace == {" "}

RECURSIVE trimStart(_)
trimStart(s) ==
    IF s # <<>> /\ s[1] \in Whitespace THEN trimStart(Tail(s)) ELSE s

RECURSIVE trimEnd(_)
trimEnd(s) ==
    IF s # <<>> /\ s[Len(s)] \in Whitespace THEN trimEnd(SubSeq(s, 1, Len(s) - 1))
    ELSE s

\* String.prototype.trim
trim(s) == trimEnd(trimStart(s))

\* position of the first c in s, 0 when there is none
indexOf(s, c) ==
    IF \E i \in 1..Len(s) : s[i] = c
    THEN CHOOSE i \in 1..Len(s) : s[i] = c /\ \A j \in 1..(i - 1) : s[j] # c
    ELSE 0

\* const [key, ...valueParts] = trimmed.split('=')
envKey(line) ==
    IF indexOf(line, "=") = 0 THEN line
    ELSE SubSeq(line, 1, indexOf(line, "=") - 1)

\* mutant: the line is split at its last '='
envRest_LastEquals(line) ==
    IF indexOf(line, "=") = 0 THEN <<>>
    ELSE LET last == CHOOSE i \in 1..Len(line) :
                         line[i] = "=" /\ \A j \in (i + 1)..Len(line) : line[j] # "="
         IN SubSeq(line, last + 1, Len(line))

\* valueParts.join('=')
envRest(line) ==
    IF indexOf(line, "=") = 0 THEN <<>>
    ELSE SubSeq(line, indexOf(line, "=") + 1, Len(line))

\* startsWith('"') && endsWith('"') || startsWith("'") && endsWith("'"):
\* value.slice(1, -1)
stripQuotes(value) ==
    IF value # <<>> /\ value[1] \in {DQ, SQ} /\ value[Len(value)] = value[1]
    THEN SubSeq(value, 2, Len(value) - 1)
    ELSE value

\* the forEach over the lines: envVars[key.trim()] = value
RECURSIVE parseLines(_, _)
parseLines(lines, envVars) ==
    IF lines = <<>> THEN envVars
    ELSE LET trimmed == trim(Head(lines))
             key == envKey(trimmed)
             value == stripQuotes(trim(envRest(trimmed)))
             assigned == [k \in DOMAIN envVars \cup {trim(key)} |->
                             IF k = trim(key) THEN value ELSE envVars[k]]
         IN parseLines(Tail(lines),
                       IF trimmed # <<>> /\ trimmed[1] # "#" /\ key # <<>>
                       THEN assigned ELSE envVars)

parseEnvFile(lines) == parseLines(lines, [k \in {} |-> <<>>])

EnvKeys == { <<"K">>, <<"J">>, <<"K", " ">>, <<"#", "K">>, <<>>, <<"K", "=", "J">> }

EnvValues ==
    { <<>>, <<"v">>, <<"a", "=", "b">>, <<" ", "v", " ">>, <<DQ, "v", DQ>>, <<DQ>>,
      <<SQ, "v", SQ>>, <<DQ, "v", SQ>>, <<"v", DQ, "w">> }

\* lines that are no KEY=VALUE line: a comment, blanks, nothing, a bare word
RawLines == { <<"#", "c">>, <<" ">>, <<>>, <<"K">> }

EnvItems ==
    [kind : {"pair"}, key : EnvKeys, value : EnvValues]
        \cup [kind : {"raw"}, key : RawLines, value : {<<>>}]

RECURSIVE EnvInputs(_)
EnvInputs(n) ==
    IF n = 0 THEN {<<>>}
    ELSE LET shorter == EnvInputs(n - 1)
         IN shorter \cup {Append(t, e) : t \in shorter, e \in EnvItems}

\* one KEY=VALUE line for an entry, a raw line as it is
writeEnvLine(item) ==
    IF item.kind = "pair" THEN item.key \o <<"=">> \o item.value ELSE item.key

EnvInit ==
    /\ FreshProject
    /\ NoRun
    /\ NmOff
    /\ RsOff
    /\ HsOff
    /\ LgOff
    /\ VcOff
    /\ HfOff
    /\ evIn \in EnvInputs(MaxLines)
    /\ evText = <<>>
    /\ evOut = <<>>
    /\ evPhase = "input"

EnvWrite ==
    /\ evPhase = "input"
    /\ evText' = [i \in 1..Len(evIn) |-> writeEnvLine(evIn[i])]
    /\ evPhase' = "written"
    /\ UNCHANGED <<storeVars, runVars, listed, nmVars, rsVars, hsVars, lgVars,
                   evIn, evOut, vcVars, hfVars>>

EnvParse ==
    /\ evPhase = "written"
    /\ evOut' = parseEnvFile(evText)
    /\ evPhase' = "parsed"
    /\ UNCHANGED <<storeVars, runVars, listed, nmVars, rsVars, hsVars, lgVars,
                   evIn, evText, vcVars, hfVars>>

EnvNext == EnvWrite \/ EnvParse

SpecEnv == EnvInit /\ [][EnvNext]_vars

----------------------------------------------------------------------------
(* Configuration validation: validateProjectConfig *)

\* const required = ['projectId', 'region', 'serviceName']
required == <<"projectId", "region", "serviceName">>

\* a field of the object: not there, the empty string, or some text
FieldValues == {Undefined, "", "x", "y"}

\* !config[field]
isFalsy(v) == v \in {Undefined, ""}

\* mutant: the check stops at the first missing field
validateProjectConfig_FirstOnly(cfg) ==
    LET missing == SelectSeq(required, LAMBDA f : isFalsy(cfg[f]))
    IN [threw |-> missing # <<>>,
        named |-> IF missing = <<>> THEN <<>> ELSE <<missing[1]>>]

\* required.filter(field => !config[field]); the Error message lists the
\* names joined by ', '
validateProjectConfig(cfg) ==
    LET missing == SelectSeq(required, LAMBDA f : isFalsy(cfg[f]))
    IN [threw |-> missing # <<>>, named |-> missing]

ValidateInit ==
    /\ FreshProject
    /\ NoRun
    /\ NmOff
    /\ RsOff
    /\ HsOff
    /\ LgOff
    /\ EvOff
    /\ HfOff
    /\ vcIn \in [projectId : FieldValues, region : FieldValues,
                 serviceName : FieldValues, artifactRegistry : {Undefined, "repo"}]
    /\ vcOut = <<>>
    /\ vcPhase = "input"

Validate ==
    /\ vcPhase = "input"
    /\ vcOut' = validateProjectConfig(vcIn)
    /\ vcPhase' = "validated"
    /\ UNCHANGED <<storeVars, runVars, listed, nmVars, rsVars, hsVars, lgVars,
                   evVars, vcIn, hfVars>>

ValidateNext == Validate

SpecValidate == ValidateInit /\ [][ValidateNext]_vars

----------------------------------------------------------------------------
(* History file: two processes of one project directory, each running       *)
(* addDeployment or removeDeployment on .gcp-deploy-history.json            *)

MaxFileRecords == 1

Procs == {1, 2}

\* the document on disk: its deployments, and whether JSON.parse accepts it
HistoryFiles == [parsable : BOOLEAN, records : HistoriesUpTo(MaxFileRecords)]

\* JSON.parse in try/catch: { deployments: [] } when it throws
readDeploymentHistory(file) == IF file.parsable THEN file.records ELSE <<>>

\* fs.writeFileSync(historyPath, JSON.stringify(history, null, 2))
writeDeploymentHistory(h) == [parsable |-> TRUE, records |-> h]

\* new Date() of a process at its push
clockOf(p) == 2 + p

FileInit ==
    /\ FreshProject
    /\ NoRun
    /\ NmOff
    /\ RsOff
    /\ HsOff
    /\ LgOff
    /\ EvOff
    /\ VcOff
    /\ hfStart \in HistoryFiles
    /\ hfFile = hfStart
    /\ hfProc \in [Procs -> [op : {"add", "remove"}, name : {APP, APP_PREVIEW},
                             pc : {"start"}, local : {<<>>}]]

\* const history = readDeploymentHistory(projectDir)
ProcRead(p) ==
    /\ hfProc[p].pc = "start"
    /\ hfProc' = [hfProc EXCEPT ![p].pc = "read",
                                ![p].local = readDeploymentHistory(hfFile)]
    /\ UNCHANGED <<storeVars, runVars, listed, nmVars, rsVars, hsVars, lgVars,
                   evVars, vcVars, hfStart, hfFile>>

\* the push or the filter on the copy that was read, then writeDeploymentHistory
ProcWrite(p) ==
    /\ hfProc[p].pc = "read"
    /\ hfFile' = writeDeploymentHistory(
                     IF hfProc[p].op = "add"
                     THEN addDeployment(hfProc[p].local, recordFor(hfProc[p].name),
                                        clockOf(p))
                     ELSE removeDeployment(hfProc[p].local, hfProc[p].name))
    /\ hfProc' = [hfProc EXCEPT ![p].pc = "done"]
    /\ UNCHANGED <<storeVars, runVars, listed, nmVars, rsVars, hsVars, lgVars,
                   evVars, vcVars, hfStart>>

FileNext == \E p \in Procs : ProcRead(p) \/ ProcWrite(p)

SpecFile == FileInit /\ [][FileNext]_vars

----------------------------------------------------------------------------
(* Properties *)

DeployDone == cmd = "deploy" /\ pc = "done"
RemoveDone == cmd = "remove" /\ pc = "done"

\* the call of the run named op (the last one, were there several)
TheCall(op) == CallsOf(op)[Len(CallsOf(op))]

\* C1: a deploy run whose Docker probe or gcloud authentication probe fails
\* aborts in pre-flight: it issues no build, tag, push or deploy call and the
\* deployment history is the one the run started with.
C1_PreflightFailureAborts ==
    (cmd = "deploy" /\ (Failed("dockerInfo") \/ Failed("gcloudAuthList")))
        => /\ pc = "done"
           /\ outcome = "error"
           /\ \A i \in 1..Len(calls) :
                 calls[i].op \in {"dockerInfo", "gcloudAuthList"}
           /\ history = histBefore

C1_Witness ==
    /\ DeployDone
    /\ Failed("gcloudAuthList")
    /\ Succeeded("dockerInfo")
    /\ history # <<>>

DeployOrder ==
    <<"dockerInfo", "gcloudAuthList", "configureDockerAuth", "parseEnvFile",
      "build", "tag", "push", "pushLatest", "deploy", "describe", "addDeployment">>

\* C2: the calls of a deploy run follow the fixed order pre-flight, env load,
\* build, push, deploy, history append, and a failed build, timestamped push
\* or service deploy is the last call of the run.
C2_FixedOrderAbortOnFailure ==
    cmd = "deploy" =>
        /\ Len(calls) <= Len(DeployOrder)
        /\ \A i \in 1..Len(calls) :
              /\ calls[i].op = DeployOrder[i]
              /\ (calls[i].op \in {"build", "push", "deploy"} /\ ~calls[i].ok)
                    => (i = Len(calls) /\ pc = "done" /\ history = histBefore)

C2_Witness ==
    /\ DeployDone
    /\ Failed("push")
    /\ Succeeded("build")

\* C3: no two records of the deployment history have the same serviceName.
C3_UniqueServiceNames ==
    \A i, j \in 1..Len(history) :
        i # j => history[i].serviceName # history[j].serviceName

C5_DeployedIsRecorded ==
    (DeployDone /\ Succeeded("deploy")) => hasDeployment(history, serviceName)

C7_FailedDeleteKeepsHistory ==
    (RemoveDone /\ Failed("deleteService")
        /\ TheCall("deleteService").fail.kind # "notFound")
            => history = histBefore

\* C8: unless the user confirmed or --yes was given, remove issues neither the
\* existence lookup nor the delete and leaves the history as it was; a
\* declined or unanswered prompt ends the command.
C8_NoRemovalWithoutConfirmation ==
    (cmd = "remove" /\ ~opts.yes
        /\ ~(Called("prompt") /\ TheCall("prompt").res = "yes"))
            => /\ ~Called("getService")
               /\ ~Called("deleteService")
               /\ history = histBefore
               /\ Called("prompt") => (pc = "done" /\ outcome = "cancelled")

C8_Witness ==
    /\ RemoveDone
    /\ Called("prompt")
    /\ TheCall("prompt").res = "none"
    /\ hasDeployment(history, serviceName)
    /\ serviceName \in remote

\* C9: a command that ends on an error exits with a non-zero status, and a
\* command that ends without error exits with status zero.
C9_ExitStatusReflectsError ==
    pc = "done" => (outcome = "error" <=> exitStatus # 0)

ValidServiceName(name) ==
    /\ name # <<>>
    /\ \A i \in 1..Len(name) : name[i] \in AlNum \cup {"-"}
    /\ name[1] \in AlNum
    /\ name[Len(name)] \in AlNum
    /\ \A i \in 1..(Len(name) - 1) : ~(name[i] = "-" /\ name[i + 1] = "-")

\* C10: for every branch string and every value of the random suffix, the
\* derived preview name consists of lowercase letters, digits and hyphens,
\* starts and ends with a letter or digit and has no two consecutive hyphens.
C10_PreviewNameValid ==
    nmPhase = "derived" => ValidServiceName(nmName)

Resolved == rsPhase = "resolved"

hasUpperCase(s) == toLowerCase(s) # s

\* C11 (as stated): for a production deploy the target service name is exactly
\* the configured base name, unchanged, for every base name and every branch.
C11_ProductionNameIsBase ==
    (Resolved /\ rsOut.type = "production") => rsOut.name = rsIn.base

\* C11 (amended): for a production deploy the target service name is the
\* configured base name converted to lower case, for every base name and every
\* branch: the configured name itself whenever it has no upper-case letter.
C11_ProductionNameIsLowercasedBase ==
    (Resolved /\ rsOut.type = "production") =>
        /\ rsOut.name = toLowerCase(rsIn.base)
        /\ ~hasUpperCase(rsIn.base) => rsOut.name = rsIn.base

C11_Witness ==
    /\ Resolved
    /\ rsOut.type = "production"
    /\ rsIn.base = <<"a", "-", "-", "b">>
    /\ rsOut.branch = FEATURE

\* C12: the kind is production when the production option is given, whatever
\* the preview option; otherwise preview when the preview option is given or
\* the branch (the --branch value, else the git branch) is not "main";
\* otherwise production.  With no option the kind is production exactly when
\* the branch is "main".
C12_KindDecision ==
    Resolved =>
        LET branch == IF rsIn.branch = NoBranch THEN rsIn.git ELSE rsIn.branch
        IN /\ rsOut.branch = branch
           /\ rsIn.production => rsOut.type = "production"
           /\ (~rsIn.production /\ (rsIn.preview \/ branch # MAIN))
                 => rsOut.type = "preview"
           /\ (~rsIn.production /\ ~rsIn.preview /\ branch = MAIN)
                 => rsOut.type = "production"
           /\ (~rsIn.production /\ ~rsIn.preview)
                 => (rsOut.type = "production" <=> branch = MAIN)

C12_Witness ==
    /\ Resolved
    /\ rsIn.production
    /\ rsIn.preview
    /\ rsIn.branch = FEATURE
    /\ rsOut.type = "production"

\* C13: in follow mode every log entry goes to the callback at most once, over
\* any sequence of polls.
C13_EntryDeliveredAtMostOnce ==
    \A k \in 1..Len(lgDelivered) : lgDelivered[k] <= 1

\* C14: in follow mode the lower bound of the next fetch never moves backward,
\* in whatever order the fetches in flight complete.
C14_WatermarkNeverMovesBack ==
    [][lastTimestamp' >= lastTimestamp]_vars

\* C15: after the interrupt the timer is cleared, no fetch is started, and no
\* fetch that was in flight is cut off by the exit of the process.
C15_InterruptLetsFetchComplete ==
    lgExited => (pollInterval = "cleared" /\ lgFlights = <<>> /\ lgAborted = 0)

\* C16: in a deploy run whose timestamped push succeeded, whatever the local
\* retag and the :latest push did, the service deploy is attempted with the
\* timestamped image and, if it succeeds, the history record is appended.
C16_LatestTagDoesNotMatter ==
    (DeployDone /\ Succeeded("push")) =>
        /\ Called("tag") /\ Called("pushLatest")
        /\ Called("deploy")
        /\ TheCall("deploy").image = TheCall("push").image
        /\ ~TheCall("deploy").image.latest
        /\ Succeeded("deploy") =>
              /\ Len(history) = Len(histBefore) + 1
              /\ history[Len(history)].serviceName = serviceName

\* C17: a deploy whose gcp-deploy.json lacks projectId, region or serviceName
\* issues no registry-auth, build, push or deploy call.
C17_MissingFieldAbortsBeforeCalls ==
    (cmd = "deploy" /\ projectFile \in MissingFieldFiles) =>
        \A i \in 1..Len(calls) :
            calls[i].op \notin {"configureDockerAuth", "build", "tag", "push",
                                "pushLatest", "deploy"}

\* C18: when gcloud auth list runs successfully but prints no active account,
\* pre-flight fails: the run ends with an error and attempts no build.
C18_PreflightNeedsActiveAccount ==
    (cmd = "deploy" /\ Succeeded("gcloudAuthList")
        /\ TheCall("gcloudAuthList").res = "")
            => /\ pc = "done"
               /\ outcome = "error"
               /\ ~Called("configureDockerAuth")
               /\ ~Called("build")

\* C19 (as stated): for every history H and record r, adding r and then
\* removing r.serviceName yields H, also when H already holds that name.
C19_AddThenRemoveRestores ==
    hsPhase = "removed" => hsOut = hsIn.h

\* C19 (amended): adding r and then removing r.serviceName yields H with every
\* record of that name taken out, the others in their order: H itself exactly
\* when H holds no record of that name.
C19_AddThenRemoveDropsTheName ==
    hsPhase = "removed" =>
        LET H == hsIn.h
            name == hsIn.r.serviceName
            kept == {i \in 1..Len(H) : H[i].serviceName # name}
        IN /\ Len(hsOut) = Cardinality(kept)
           /\ \A i \in 1..Len(hsOut) : hsOut[i].serviceName # name
           /\ \A i \in kept :
                 hsOut[Cardinality({j \in kept : j <= i})] = H[i]
           /\ hsOut = H <=> kept = 1..Len(H)

C19_Witness ==
    /\ hsPhase = "removed"
    /\ Len(hsIn.h) = 2
    /\ hsIn.h[1].serviceName = hsIn.r.serviceName
    /\ hsIn.h[2].serviceName # hsIn.r.serviceName
    /\ Len(hsOut) = 1

ListDone == cmd = "list" /\ pc = "done" /\ Succeeded("listServices")

\* name equals the base name or starts with the base name and a hyphen
MatchesBase(n, base) ==
    \/ n = base
    \/ /\ Len(n) > Len(base)
       /\ \A i \in 1..Len(base) : n[i] = base[i]
       /\ n[Len(base) + 1] = "-"

\* the group the claim gives a selected service
ClaimedGroup(n, base) ==
    LET recs == {i \in 1..Len(history) : history[i].serviceName = n}
    IN IF recs # {}
       THEN history[CHOOSE i \in recs : \A j \in recs : i <= j].type
       ELSE IF n = base THEN "production" ELSE "preview"

\* selection and grouping of the services a list run fetched
ListGroups ==
    \A n \in listed.services :
        /\ (n \in listed.production \cup listed.preview) <=> MatchesBase(n, APP)
        /\ ~(n \in listed.production /\ n \in listed.preview)
        /\ MatchesBase(n, APP) =>
              (n \in listed.production <=> ClaimedGroup(n, APP) = "production")

\* C20 (as stated): list shows a remote service exactly when its name is the
\* configured name or starts with it and a hyphen; each shown service is in
\* exactly one group, the one its history record names, else production for
\* the configured name and preview for any other.
C20_ListShowsExactlyMatching ==
    ListDone =>
        /\ ListGroups
        /\ \A n \in listed.services : n \in listed.shown <=> MatchesBase(n, APP)

\* C20 (amended): list selects a remote service exactly when its name is the
\* configured name or starts with it and a hyphen and puts it in exactly one
\* group as above; it shows the production group when --production is given
\* or --preview is not, and the preview group when --preview is given or
\* --production is not.
C20_ListSelectsGroupsAndFilters ==
    ListDone =>
        /\ ListGroups
        /\ \A n \in listed.services :
              n \in listed.shown <=>
                  \/ n \in listed.production /\ (opts.production \/ ~opts.preview)
                  \/ n \in listed.preview /\ (opts.preview \/ ~opts.production)

C20_Witness ==
    /\ ListDone
    /\ opts.production /\ ~opts.preview
    /\ {APP, APPLE, APP_X} \subseteq listed.services
    /\ APP \in listed.shown
    /\ APP_X \in listed.preview
    /\ \E n \in listed.preview : hasDeployment(history, n)
    /\ \A n \in listed.preview : n \notin listed.shown

\* C21: a list run changes neither the history nor any remote service, and
\* every name it groups or shows is a service the platform returned: a name
\* that is in the history but not on the platform is never shown.
C21_ListIsReadOnly ==
    cmd = "list" =>
        /\ history = histBefore
        /\ remote = remoteBefore
        /\ listed.production \cup listed.preview \cup listed.shown
               \subseteq remote \cup ForeignServices
        /\ \A i \in 1..Len(history) :
              history[i].serviceName \notin remote
                 => history[i].serviceName \notin
                        listed.production \cup listed.preview \cup listed.shown

C21_Witness ==
    /\ ListDone
    /\ listed.shown # {}
    /\ \E i \in 1..Len(history) :
          /\ history[i].serviceName \notin remote
          /\ isRelevant(history[i].serviceName, APP)

EnvParsed == evPhase = "parsed"

\* the input is a mapping as C22 takes it: entries only, keys distinct,
\* non-empty and not starting with '#'
IsEnvMapping ==
    /\ \A i \in 1..Len(evIn) :
          /\ evIn[i].kind = "pair"
          /\ evIn[i].key # <<>>
          /\ evIn[i].key[1] # "#"
    /\ \A i, j \in 1..Len(evIn) : i # j => evIn[i].key # evIn[j].key

\* the parsed mapping has the keys and the values of the input
SameMapping ==
    /\ DOMAIN evOut = {evIn[i].key : i \in 1..Len(evIn)}
    /\ \A i \in 1..Len(evIn) : evOut[evIn[i].key] = evIn[i].value

NoOuterSpace(s) == s = <<>> \/ (s[1] # " " /\ s[Len(s)] # " ")

QuoteWrapped(s) == s # <<>> /\ s[1] \in {DQ, SQ} /\ s[Len(s)] = s[1]

ClaimSkipped(line) ==
    \/ \A k \in 1..Len(line) : line[k] = " "
    \/ \E k \in 1..Len(line) :
          line[k] = "#" /\ \A j \in 1..(k - 1) : line[j] = " "

\* the part of the line before its first '=': the whole line when it has none
ClaimKeyPart(line) ==
    IF \E k \in 1..Len(line) : line[k] = "="
    THEN SubSeq(line, 1, indexOf(line, "=") - 1)
    ELSE line

ClaimValuePart(line) ==
    IF \E k \in 1..Len(line) : line[k] = "="
    THEN SubSeq(line, indexOf(line, "=") + 1, Len(line))
    ELSE <<>>

ClaimHasEntry(line) ==
    /\ ~ClaimSkipped(line)
    /\ \E j \in 1..Len(ClaimKeyPart(line)) : ClaimKeyPart(line)[j] # " "

ClaimKey(line) == trim(ClaimKeyPart(line))

ClaimValue(line) ==
    LET v == trim(ClaimValuePart(line))
    IN IF Len(v) >= 2 /\ v[1] \in {DQ, SQ} /\ v[Len(v)] = v[1]
       THEN SubSeq(v, 2, Len(v) - 1)
       ELSE v

\* C23: lines that are blank or start with '#' are skipped; every other line
\* is split at its first '=' into trimmed key and trimmed value, the quotes of
\* a value enclosed in one matching pair are stripped (and no others), and
\* the last line of a key gives its value.
C23_EnvLineRules ==
    EnvParsed =>
        /\ \A i \in 1..Len(evText) :
              (/\ ClaimHasEntry(evText[i])
               /\ \A j \in (i + 1)..Len(evText) :
                     ClaimHasEntry(evText[j]) => ClaimKey(evText[j]) # ClaimKey(evText[i]))
                  => /\ ClaimKey(evText[i]) \in DOMAIN evOut
                     /\ evOut[ClaimKey(evText[i])] = ClaimValue(evText[i])
        /\ \A k \in DOMAIN evOut :
              \E i \in 1..Len(evText) :
                  ClaimHasEntry(evText[i]) /\ ClaimKey(evText[i]) = k

\* C24: validation fails exactly when projectId, region or serviceName is
\* missing or empty, and the message names every such field, each once, and
\* no field that is present.
C24_ValidationNamesEveryMissingField ==
    vcPhase = "validated" =>
        LET lacking == {f \in {"projectId", "region", "serviceName"} :
                            vcIn[f] = Undefined \/ vcIn[f] = ""}
        IN /\ vcOut.threw <=> lacking # {}
           /\ {vcOut.named[i] : i \in 1..Len(vcOut.named)} = lacking
           /\ Len(vcOut.named) = Cardinality(lacking)

C24_Witness ==
    /\ vcPhase = "validated"
    /\ vcIn.projectId = Undefined
    /\ vcIn.region = ""
    /\ vcIn.serviceName = "x"
    /\ vcOut.threw
    /\ vcOut.named = <<"projectId", "region">>

\* C25: when the service disappears between remove's lookup and its delete
\* call, remove treats the target as clean: the history record is removed and
\* no failed deletion is reported.
C25_DeleteOfAbsentIsClean ==
    (RemoveDone /\ Failed("deleteService")
        /\ TheCall("deleteService").fail.kind = "notFound")
            => /\ ~hasDeployment(history, serviceName)
               /\ outcome # "error"

\* C26: within one deploy run the build, the push of the timestamped tag, the
\* push of :latest, the service deploy and the URL lookup are each invoked at
\* most once, a failed one included.
C26_EveryStepAtMostOnce ==
    cmd = "deploy" =>
        \A op \in {"dockerInfo", "gcloudAuthList", "configureDockerAuth", "build",
                   "tag", "push", "pushLatest", "deploy", "describe", "addDeployment"} :
            Len(CallsOf(op)) <= 1

C26_Witness ==
    /\ DeployDone
    /\ Failed("pushLatest")
    /\ Failed("deploy")
    /\ Len(CallsOf("build")) = 1
    /\ Len(CallsOf("deploy")) = 1

\* C27: looking a name up in the history returns the record of its most
\* recent deploy.
C27_LookupReturnsLatestRecord ==
    \A i \in 1..Len(history) :
        getDeployment(history, history[i].serviceName).timestamp
            >= history[i].timestamp

BothDone == hfProc # <<>> /\ \A p \in Procs : hfProc[p].pc = "done"

\* C28: after two processes have each appended or removed with their
\* read-modify-write steps interleaved, the history holds every appended
\* record and no removed record.
C28_InterleavedUpdatesBothKept ==
    (BothDone /\ hfStart.parsable) =>
        \A p \in Procs :
            LET q == CHOOSE r \in Procs : r # p
            IN /\ (hfProc[p].op = "add"
                      /\ ~(hfProc[q].op = "remove" /\ hfProc[q].name = hfProc[p].name))
                  => \E i \in 1..Len(hfFile.records) :
                        /\ hfFile.records[i].serviceName = hfProc[p].name
                        /\ hfFile.records[i].timestamp = clockOf(p)
               /\ hfProc[p].op = "remove"
                  => \A i \in 1..Len(hfFile.records) :
                        hfFile.records[i].serviceName = hfProc[p].name
                           => hfFile.records[i].timestamp >= clockOf(1)

\* C30: when the history document exists but cannot be parsed, addDeployment
\* does not replace it by a history that holds only the new record: the
\* records persisted before are still in the document.
C30_AppendKeepsPersistedRecords ==
    (hfProc # <<>> /\ ~hfStart.parsable /\ \A p \in Procs : hfProc[p].op = "add")
        => \/ hfFile = hfStart
           \/ \A i \in 1..Len(hfStart.records) :
                 \E j \in 1..Len(hfFile.records) :
                    hfFile.records[j] = hfStart.records[i]

\* every entry not yet delivered is selected by the next fetch and by every
\* fetch that has been sent and not yet answered
UndeliveredAreCovered ==
    \A k \in 1..Len(lgEntries) :
        lgDelivered[k] = 0 =>
            /\ lgEntries[k] >= lastTimestamp
            /\ \A f \in 1..Len(lgFlights) :
                  ~lgFlights[f].answered => lgEntries[k] >= lgFlights[f].since

\* C29: a failed fetch of one poll leaves the timer set and the lower bound
\* of the next fetch as it was, and the entries written meanwhile are still
\* selected, hence delivered, by the next fetch that succeeds.
C29_FetchFailureKeepsPolling ==
    /\ []UndeliveredAreCovered
    /\ [][lgErrors' # lgErrors =>
            (pollInterval' = pollInterval /\ lastTimestamp' = lastTimestamp)]_vars

C29_Witness ==
    /\ lgErrors = 1
    /\ lgPolls = 2
    /\ lgFlights = <<>>
    /\ pollInterval = "set"
    /\ Len(lgEntries) = 1
    /\ lgDelivered[1] = 1

====
